---- MODULE Spec2Model ----
(***************************************************************************)
(* State-machine model of the BoulderDash grid update engine:              *)
(* Grid (src/src/game/grid.rs), Tile (src/src/game/tile.rs) and the        *)
(* falling entity Diamond (src/src/game/diamond.rs), driven by Game        *)
(* (src/src/lib.rs).  Rock, Player, Action, Movement, Zone and Tile::update *)
(* are not part of the available sources; they are modelled from the       *)
(* design document and marked as such where they are defined.              *)
(*                                                                         *)
(* Coordinates are the program's: (x, y), zero-based, x the column and y   *)
(* the row, rows counted from the top.  A coordinate is the tuple <<x, y>>.*)
(***************************************************************************)
EXTENDS Integers, Sequences, FiniteSets, TLC

VARIABLES
    tiles,            \* Grid.tiles: rows (y) of Tiles (x)
    player_position,  \* Grid.player_position: the cached player coordinate
    zones,            \* Grid.zones, as the width and height they were built from
    pc,               \* position inside Grid::update: "idle", "player", "diamonds"
    fault,            \* TRUE once a panic (expect/unwrap) has aborted the program
    drawn             \* the draws made on the canvas by the last step, in order

vars == <<tiles, player_position, zones, pc, fault, drawn>>

\* ------------------------------------------------------------------------
\* Bounds of the model

\* update() is not started once some entity has fallen this many ticks
MaxFallingSince == 6

\* ------------------------------------------------------------------------
\* Field, Movement, Action

Empty == [field |-> "Empty"]

Dirt == [field |-> "Dirt"]

Exit == [field |-> "Exit"]

Wall(x, y) == [field |-> "Wall", position |-> <<x, y>>]

\* Diamond::new
NewDiamond(x, y) ==
    [field |-> "Entity", type |-> "Diamond", position |-> <<x, y>>,
     falling_since |-> 0]

\* Rock::new (the Rock is a falling entity like the Diamond)
NewRock(x, y) ==
    [field |-> "Entity", type |-> "Rock", position |-> <<x, y>>,
     falling_since |-> 0]

\* Player::new: a Player with no intent
NewPlayer(x, y) ==
    [field |-> "Entity", type |-> "Player", position |-> <<x, y>>,
     movement |-> "Afk"]

Movements == {"Afk", "MoveUp", "MoveDown", "MoveLeft", "MoveRight"}

\* Option::None of an Option<Movement>
None == "None"

\* Movement::edit_position, for the four directional values
EditPosition(movement, pos) ==
    CASE movement = "MoveUp"    -> <<pos[1], pos[2] - 1>>
      [] movement = "MoveDown"  -> <<pos[1], pos[2] + 1>>
      [] movement = "MoveLeft"  -> <<pos[1] - 1, pos[2]>>
      [] movement = "MoveRight" -> <<pos[1] + 1, pos[2]>>

\* Action::new
NewAction(pos, field) == [coordinates |-> pos, field |-> field]

\* ------------------------------------------------------------------------
\* Tile

NewTile(x, y, field) == [x |-> x, y |-> y, field |-> field]

\* Option::None of an Option<&Tile>
NoTile == [absent |-> "Tile"]

\* Option::None of an Option<&Field>
NoObject == [absent |-> "Field"]

\* Tile::get_position
TilePosition(tile) == <<tile.x, tile.y>>

\* Tile::get_object_on: only Entity, Wall and Exit are reported
GetObjectOn(tile) ==
    IF tile.field.field \in {"Entity", "Wall", "Exit"} THEN tile.field ELSE NoObject

\* Tile::set_object_on
SetObjectOn(tile, field) == [tile EXCEPT !.field = field]

\* ------------------------------------------------------------------------
\* Grid: queries

\* Grid::get_tile: a negative i32 cast to usize is out of range of the Vec
GetTile(g, x, y) ==
    IF y >= 0 /\ y < Len(g)
    THEN IF x >= 0 /\ x < Len(g[y + 1]) THEN g[y + 1][x + 1] ELSE NoTile
    ELSE NoTile

\* get_nearest_tile answering the origin tile for Afk (no displacement)
GetNearestTileAfkOrigin(g, x, y, direction) ==
    IF direction = "Afk" THEN GetTile(g, x, y)
    ELSE LET coordinates == EditPosition(direction, <<x, y>>)
         IN  GetTile(g, coordinates[1], coordinates[2])

\* Grid::get_nearest_tile
GetNearestTile(g, x, y, direction) ==
    IF direction = "Afk" THEN NoTile
    ELSE LET coordinates == EditPosition(direction, <<x, y>>)
         IN  GetTile(g, coordinates[1], coordinates[2])

\* All coordinates of the grid in the row-major order of the scan
\* (top-to-bottom, left-to-right)
RECURSIVE ScanFrom(_, _, _)
ScanFrom(g, x, y) ==
    IF y >= Len(g) THEN <<>>
    ELSE IF x >= Len(g[y + 1]) THEN ScanFrom(g, 0, y + 1)
    ELSE <<(<<x, y>>)>> \o ScanFrom(g, x + 1, y)

ScanOrder(g) == ScanFrom(g, 0, 0)

RECURSIVE SelectEntities(_, _, _)
SelectEntities(g, coords, type) ==
    IF coords = <<>> THEN <<>>
    ELSE LET tile == GetTile(g, Head(coords)[1], Head(coords)[2])
             obj  == GetObjectOn(tile)
             rest == SelectEntities(g, Tail(coords), type)
         IN  IF obj # NoObject /\ obj.field = "Entity" /\ obj.type = type
             THEN <<obj>> \o rest
             ELSE rest

\* Grid::get_tiles_with_entity::<T>: the entities of one kind, in scan order
GetTilesWithEntity(g, type) == SelectEntities(g, ScanOrder(g), type)

\* ------------------------------------------------------------------------
\* Action application

\* Action::apply: the tile at the Action's coordinate takes the Action's Field
ActionApply(g, action) ==
    LET x == action.coordinates[1]
        y == action.coordinates[2]
    IN  IF GetTile(g, x, y) = NoTile THEN g
        ELSE [g EXCEPT ![y + 1][x + 1] = SetObjectOn(@, action.field)]

RECURSIVE ApplyInOrder(_, _)
ApplyInOrder(g, actions) ==
    IF actions = <<>> THEN g
    ELSE ApplyInOrder(ActionApply(g, Head(actions)), Tail(actions))

\* Grid::apply_actions: every Action in list order (rendering draws only)
ApplyActions(g, actions) == ApplyInOrder(g, actions)

\* ------------------------------------------------------------------------
\* Diamond (src/src/game/diamond.rs)

\* Diamond::move_to: the clone placed on the new tile is self as it is
DiamondMoveTo(self, ax, ay, nx, ny) ==
    <<NewAction(<<ax, ay>>, Empty), NewAction(<<nx, ny>>, self)>>

\* CanMoveTo without the test of falling_since: a Diamond at rest may also
\* move down onto the Player
CanMoveToAtRest(tile, movement, falling_since) ==
    IF tile = NoTile THEN None
    ELSE LET obj == GetObjectOn(tile)
         IN  IF obj = NoObject THEN movement
             ELSE IF obj.field = "Entity"
                  THEN IF obj.type = "Player" /\ movement = "MoveDown"
                       THEN movement
                       ELSE None
             ELSE IF obj.field \in {"Wall", "Dirt", "Exit"} THEN None
             ELSE movement

\* Diamond::is_falling::can_move_to
CanMoveTo(tile, movement, falling_since) ==
    IF tile = NoTile THEN None
    ELSE LET obj == GetObjectOn(tile)
         IN  IF obj = NoObject THEN movement
             ELSE IF obj.field = "Entity"
                  THEN IF obj.type = "Player" /\ falling_since > 0
                          /\ movement = "MoveDown"
                       THEN movement
                       ELSE None
             ELSE IF obj.field \in {"Wall", "Dirt", "Exit"} THEN None
             ELSE movement

\* Diamond::is_falling: down, then left, then right, from self.position
IsFalling(self, g) ==
    LET try(m) == CanMoveTo(GetNearestTile(g, self.position[1], self.position[2], m),
                            m, self.falling_since)
    IN  IF try("MoveDown") # None THEN try("MoveDown")
        ELSE IF try("MoveLeft") # None THEN try("MoveLeft")
        ELSE IF try("MoveRight") # None THEN try("MoveRight")
        ELSE None

\* Diamond::fall
Fall(self, g) ==
    LET movement == IsFalling(self, g)
    IN  IF movement # None
        THEN LET to == EditPosition(movement, self.position)
                 self_clone == [self EXCEPT !.falling_since = @ + 1]
             IN  DiamondMoveTo(self_clone, self.position[1], self.position[2],
                               to[1], to[2])
        ELSE LET self_clone == [self EXCEPT !.falling_since = 0]
             IN  <<NewAction(self.position, self_clone)>>

\* Diamond::get_future_position
GetFuturePosition(self, g) ==
    IF IsFalling(self, g) # None
    THEN EditPosition(IsFalling(self, g), self.position)
    ELSE self.position

\* Diamond::check_collision
CheckCollision(self, other, g) == GetFuturePosition(self, g) = other.position

\* Diamond::update panics when the cached player coordinate has no tile
\* (unwrap of get_tile) or when the entity on that tile is not a Player
\* (unwrap of the downcast)
DiamondUpdatePanics(self, g, pp) ==
    LET player_tile == GetTile(g, pp[1], pp[2])
    IN  \/ player_tile = NoTile
        \/ /\ GetObjectOn(player_tile) # NoObject
           /\ GetObjectOn(player_tile).field = "Entity"
           /\ GetObjectOn(player_tile).type # "Player"

\* Diamond::update, when it does not panic: the Actions of fall()
DiamondUpdate(self, g, pp) == Fall(self, g)

\* ------------------------------------------------------------------------
\* Rock, Player, Tile::update and Zone: modelled from the design document

\* Falling-entity eligibility of the design (4.3): Empty is eligible; Wall,
\* Dirt, Exit, off-grid and any entity are not, except the Player straight
\* below an entity that is already falling
RockCanMoveTo(tile, movement, falling_since) ==
    IF tile = NoTile THEN None
    ELSE IF tile.field.field = "Empty" THEN movement
    ELSE IF /\ tile.field.field = "Entity"
            /\ tile.field.type = "Player"
            /\ falling_since > 0
            /\ movement = "MoveDown"
         THEN movement
    ELSE None

RockIsFalling(self, g) ==
    LET try(m) == RockCanMoveTo(GetNearestTile(g, self.position[1], self.position[2], m),
                                m, self.falling_since)
    IN  IF try("MoveDown") # None THEN try("MoveDown")
        ELSE IF try("MoveLeft") # None THEN try("MoveLeft")
        ELSE IF try("MoveRight") # None THEN try("MoveRight")
        ELSE None

\* Rock update: vacate the old cell and occupy the new one with the updated
\* clone, or re-place the Rock with falling_since 0
RockUpdate(self, g) ==
    LET movement == RockIsFalling(self, g)
    IN  IF movement # None
        THEN LET to == EditPosition(movement, self.position)
             IN  <<NewAction(self.position, Empty),
                   NewAction(to, [self EXCEPT !.position = to,
                                              !.falling_since = @ + 1])>>
        ELSE <<NewAction(self.position, [self EXCEPT !.falling_since = 0])>>

\* Player::set_movement on a clone
SetMovement(player, movement) == [player EXCEPT !.movement = movement]

\* Player::canced_push: a no-displacement Action re-placing the Player
CancedPush(player) == NewAction(player.position, player)

\* What the Player may step onto: an empty cell, Dirt (dug) or a Diamond
\* (collected)
Walkable(tile) ==
    \/ tile.field.field \in {"Empty", "Dirt"}
    \/ tile.field.field = "Entity" /\ tile.field.type = "Diamond"

\* Player update: no Action without an intent or when the step is blocked,
\* else the move to the neighbouring tile
PlayerUpdate(self, g) ==
    LET tile == GetNearestTile(g, self.position[1], self.position[2], self.movement)
    IN  IF tile = NoTile THEN <<>>
        ELSE IF Walkable(tile)
        THEN <<NewAction(self.position, Empty),
               NewAction(TilePosition(tile),
                         [self EXCEPT !.position = TilePosition(tile)])>>
        ELSE <<>>

\* Tile::update panics when the update of the entity it holds panics
TileUpdatePanics(tile, g, pp) ==
    /\ tile.field.field = "Entity"
    /\ tile.field.type = "Diamond"
    /\ DiamondUpdatePanics(tile.field, g, pp)

\* Tile::update: the update of the entity the tile holds, if any
TileUpdate(tile, g, pp) ==
    IF tile.field.field # "Entity" THEN <<>>
    ELSE CASE tile.field.type = "Player"  -> PlayerUpdate(tile.field, g)
           [] tile.field.type = "Rock"    -> RockUpdate(tile.field, g)
           [] tile.field.type = "Diamond" -> DiamondUpdate(tile.field, g, pp)

\* Tiles per zone, in each direction
ZoneTiles == 2

\* Option::None of an Option<Zone>
NoZone == <<>>

\* Zone::from_map: the zones cover the width x height rectangle of the header
ZoneFromMap(width, height) == [width |-> width, height |-> height]

\* Zone::get_current_zone: the zone containing the coordinate, if any
GetCurrentZone(x, y, zs) ==
    IF x >= 0 /\ x < zs.width /\ y >= 0 /\ y < zs.height
    THEN <<x \div ZoneTiles, y \div ZoneTiles>>
    ELSE NoZone

\* Action::render: the draw of the tile at the Action's coordinates, as the
\* grid holds it when the draw is made, inside the zone
ActionRender(g, action, zone) ==
    [draw |-> "Action", coordinates |-> action.coordinates,
     field |-> IF GetTile(g, action.coordinates[1], action.coordinates[2]) = NoTile
               THEN NoObject
               ELSE GetTile(g, action.coordinates[1], action.coordinates[2]).field,
     zone |-> zone]

\* Grid::render_player_zone: the full redraw of the zone of the cached
\* coordinate, nothing when no zone contains it
RenderPlayerZone(pp, zs) ==
    IF GetCurrentZone(pp[1], pp[2], zs) # NoZone
    THEN <<[draw |-> "Zone", zone |-> GetCurrentZone(pp[1], pp[2], zs)]>>
    ELSE <<>>

\* apply_actions drawing each Action before its mutation is applied
RECURSIVE RenderedAhead(_, _, _, _)
RenderedAhead(g, actions, pp, zs) ==
    IF actions = <<>> THEN <<>>
    ELSE LET zone == GetCurrentZone(pp[1], pp[2], zs)
         IN  (IF zone # NoZone THEN <<ActionRender(g, Head(actions), zone)>> ELSE <<>>)
               \o RenderedAhead(ActionApply(g, Head(actions)), Tail(actions), pp, zs)

\* Grid::apply_actions, the draws it makes: each Action is applied, then
\* drawn when a zone contains the cached coordinate, then the next Action
RECURSIVE Rendered(_, _, _, _)
Rendered(g, actions, pp, zs) ==
    IF actions = <<>> THEN <<>>
    ELSE LET after == ActionApply(g, Head(actions))
             zone == GetCurrentZone(pp[1], pp[2], zs)
         IN  (IF zone # NoZone THEN <<ActionRender(after, Head(actions), zone)>> ELSE <<>>)
               \o Rendered(after, Tail(actions), pp, zs)

\* Grid::update, lines 93-95: the full redraw when the zone of the cached
\* coordinate is no longer the zone looked up before the player pass
ZoneRedraw(zone, pp, zs) ==
    IF zone # GetCurrentZone(pp[1], pp[2], zs) THEN RenderPlayerZone(pp, zs) ELSE <<>>

\* ------------------------------------------------------------------------
\* Level loading

\* The character-to-Field mapping of Grid::from_str
CharField(ch, x, y) ==
    CASE ch = "W" -> Wall(x, y)
      [] ch = "r" -> NewRock(x, y)
      [] ch = "d" -> NewDiamond(x, y)
      [] ch = "." -> Dirt
      [] ch = "P" -> NewPlayer(x, y)
      [] ch = "X" -> Exit
      [] OTHER    -> Empty

\* Grid::from_str on a level text given as its header (height, width,
\* player_x, player_y) and its rows of characters
FromStr(level) ==
    [tiles |-> [y \in 1..Len(level.rows) |->
                  [x \in 1..Len(level.rows[y]) |->
                     NewTile(x - 1, y - 1,
                             CharField(level.rows[y][x], x - 1, y - 1))]],
     player_position |-> <<level.player_x, level.player_y>>,
     zones |-> ZoneFromMap(level.width, level.height)]

\* A level text whose header agrees with its rows
Level(px, py, rows) ==
    [height |-> Len(rows), width |-> Len(rows[1]),
     player_x |-> px, player_y |-> py, rows |-> rows]

\* The level texts the model starts from
Levels ==
    { Level(0, 2, << <<" ", "d", " ">>,
                     <<" ", ".", " ">>,
                     <<"P", " ", "W">> >>),
      Level(1, 1, << <<" ", "d", " ">>,
                     <<" ", "P", " ">>,
                     <<"W", "W", "W">> >>),
      Level(0, 2, << <<"d", " ", "d">>,
                     <<"W", "W", "W">>,
                     <<"P", " ", " ">> >>),
      Level(1, 2, << <<"r", " ", "d">>,
                     <<" ", " ", " ">>,
                     <<" ", "P", "X">> >>),
      Level(0, 1, << <<"d", " ", "X">>,
                     <<"P", " ", "r">>,
                     <<"W", ".", "W">> >>),
      Level(2, 0, << <<" ", "d", "P", " ">>,
                     <<"W", "X", ".", "d">> >>) }

\* ------------------------------------------------------------------------
\* Grid: the tick and the player's intent

RECURSIVE CollectRocks(_, _)
CollectRocks(rocks, g) ==
    IF rocks = <<>> THEN <<>>
    ELSE RockUpdate(Head(rocks), g) \o CollectRocks(Tail(rocks), g)

\* The Diamond pass applying the Actions of each Diamond before the next
\* Diamond decides
RECURSIVE CollectDiamondsInterleaved(_, _, _)
CollectDiamondsInterleaved(diamonds, g, pp) ==
    IF diamonds = <<>> THEN <<>>
    ELSE DiamondUpdate(Head(diamonds), g, pp)
           \o CollectDiamondsInterleaved(Tail(diamonds),
                  ApplyActions(g, DiamondUpdate(Head(diamonds), g, pp)), pp)

RECURSIVE CollectDiamonds(_, _, _)
CollectDiamonds(diamonds, g, pp) ==
    IF diamonds = <<>> THEN <<>>
    ELSE DiamondUpdate(Head(diamonds), g, pp) \o CollectDiamonds(Tail(diamonds), g, pp)

\* set_player_doing placing the clone one step away in the requested
\* direction instead of on the Player's own tile
SetPlayerDoingDisplaced(g, pp, movement, pushing) ==
    LET player_tile == GetTile(g, pp[1], pp[2])
    IN  IF player_tile = NoTile THEN g
        ELSE LET obj == GetObjectOn(player_tile)
             IN  IF obj # NoObject /\ obj.field = "Entity" /\ obj.type = "Player"
                 THEN LET clone_player == SetMovement(obj, movement)
                          action == IF ~pushing \/ movement = "Afk"
                                    THEN CancedPush(clone_player)
                                    ELSE NewAction(EditPosition(movement, pp), clone_player)
                      IN  ActionApply(g, action)
                 ELSE g

\* set_player_doing carrying out the step at once when the neighbouring
\* tile is free, instead of only recording the intent
SetPlayerDoingStepping(g, pp, movement, pushing) ==
    LET player_tile == GetTile(g, pp[1], pp[2])
    IN  IF player_tile = NoTile THEN g
        ELSE LET obj == GetObjectOn(player_tile)
             IN  IF obj # NoObject /\ obj.field = "Entity" /\ obj.type = "Player"
                 THEN LET clone_player == SetMovement(obj, movement)
                      IN  IF ~pushing THEN ActionApply(g, CancedPush(clone_player))
                          ELSE IF PlayerUpdate(clone_player, g) = <<>>
                               THEN ActionApply(g, NewAction(pp, clone_player))
                               ELSE ApplyActions(g, PlayerUpdate(clone_player, g))
                 ELSE g

\* Grid::set_player_doing, as the grid it leaves
SetPlayerDoingOn(g, pp, movement, pushing) ==
    LET player_tile == GetTile(g, pp[1], pp[2])
    IN  IF player_tile = NoTile THEN g
        ELSE LET obj == GetObjectOn(player_tile)
             IN  IF obj # NoObject /\ obj.field = "Entity" /\ obj.type = "Player"
                 THEN LET clone_player == SetMovement(obj, movement)
                          action == IF ~pushing THEN CancedPush(clone_player)
                                    ELSE NewAction(pp, clone_player)
                      IN  ActionApply(g, action)
                 ELSE g

\* Grid::update, the player pass: the Actions of the tile at the cached
\* coordinate, against the grid left by the Rock pass
PlayerPassActions(g, pp) ==
    IF GetTile(g, pp[1], pp[2]) = NoTile THEN <<>>
    ELSE TileUpdate(GetTile(g, pp[1], pp[2]), g, pp)

\* Grid::update, the player pass: the grid after the Actions are applied,
\* or after the Player is recorded idle when there are none
PlayerPassGrid(g, pp) ==
    LET actions == PlayerPassActions(g, pp)
    IN  IF Len(actions) = 0 THEN SetPlayerDoingOn(g, pp, "Afk", FALSE)
        ELSE ApplyActions(g, actions)

\* update() without the refresh: the cached coordinate is left as it was
RefreshedPositionSkipped(g, pp) == pp

\* The refresh reading the first Diamond instead of the Player
RefreshedPositionOfDiamond(g, pp) ==
    LET diamonds == GetTilesWithEntity(g, "Diamond")
    IN  IF Len(diamonds) > 0 THEN diamonds[1].position ELSE pp

\* Grid::update, the refresh of the cached player coordinate
RefreshedPosition(g, pp) ==
    LET players == GetTilesWithEntity(g, "Player")
    IN  IF Len(players) > 0 THEN players[1].position ELSE pp

\* The largest falling_since held by a tile
FallingSinceBelow(g, n) ==
    \A y \in 1..Len(g) : \A x \in 1..Len(g[y]) :
        (g[y][x].field.field = "Entity" /\ g[y][x].field.type \in {"Rock", "Diamond"})
            => g[y][x].field.falling_since < n

\* Grid::new on a level, then the first draw of the player's zone made by
\* Game::new (lib.rs 52-54)
Init ==
    \E level \in Levels :
        /\ tiles = FromStr(level).tiles
        /\ player_position = FromStr(level).player_position
        /\ zones = FromStr(level).zones
        /\ pc = "idle"
        /\ fault = FALSE
        /\ drawn = RenderPlayerZone(FromStr(level).player_position, FromStr(level).zones)

\* Grid::update, lines 72-76: the Rock pass
UpdateRocks ==
    /\ pc = "idle"
    /\ ~fault
    /\ FallingSinceBelow(tiles, MaxFallingSince)
    /\ tiles' = ApplyActions(tiles, CollectRocks(GetTilesWithEntity(tiles, "Rock"), tiles))
    /\ drawn' = Rendered(tiles, CollectRocks(GetTilesWithEntity(tiles, "Rock"), tiles),
                         player_position, zones)
    /\ pc' = "player"
    /\ UNCHANGED <<player_position, zones, fault>>

\* Grid::update, lines 78-95: the player pass, the refresh of the cached
\* coordinate and the zone comparison
UpdatePlayer ==
    /\ pc = "player"
    /\ ~fault
    /\ IF \/ GetCurrentZone(player_position[1], player_position[2], zones) = NoZone
          \/ /\ GetTile(tiles, player_position[1], player_position[2]) # NoTile
             /\ TileUpdatePanics(GetTile(tiles, player_position[1], player_position[2]),
                                 tiles, player_position)
       THEN /\ fault' = TRUE
            /\ drawn' = <<>>
            /\ UNCHANGED <<tiles, player_position, zones, pc>>
       ELSE LET g == PlayerPassGrid(tiles, player_position)
                pp == RefreshedPosition(g, player_position)
                zone == GetCurrentZone(player_position[1], player_position[2], zones)
                rendered == Rendered(tiles, PlayerPassActions(tiles, player_position),
                                     player_position, zones)
            IN  /\ tiles' = g
                /\ player_position' = pp
                /\ IF GetCurrentZone(pp[1], pp[2], zones) = NoZone
                   THEN fault' = TRUE /\ pc' = pc /\ drawn' = rendered
                   ELSE /\ fault' = fault
                        /\ pc' = "diamonds"
                        /\ drawn' = rendered \o ZoneRedraw(zone, pp, zones)
                /\ UNCHANGED zones

\* Grid::update, lines 97-101: the Diamond pass
UpdateDiamonds ==
    /\ pc = "diamonds"
    /\ ~fault
    /\ LET diamonds == GetTilesWithEntity(tiles, "Diamond")
       IN  IF /\ diamonds # <<>>
              /\ DiamondUpdatePanics(Head(diamonds), tiles, player_position)
           THEN /\ fault' = TRUE
                /\ drawn' = <<>>
                /\ UNCHANGED <<tiles, player_position, zones, pc>>
           ELSE /\ tiles' = ApplyActions(tiles, CollectDiamonds(diamonds, tiles, player_position))
                /\ drawn' = Rendered(tiles, CollectDiamonds(diamonds, tiles, player_position),
                                     player_position, zones)
                /\ pc' = "idle"
                /\ UNCHANGED <<player_position, zones, fault>>

\* Grid::set_player_doing, called between ticks (Game::key_down is the
\* pushing = TRUE case with a directional movement)
SetPlayerDoing(movement, pushing) ==
    /\ pc = "idle"
    /\ ~fault
    /\ tiles' = SetPlayerDoingOn(tiles, player_position, movement, pushing)
    /\ drawn' = <<>>
    /\ UNCHANGED <<player_position, zones, pc, fault>>

Next ==
    \/ UpdateRocks
    \/ UpdatePlayer
    \/ UpdateDiamonds
    \/ \E movement \in Movements, pushing \in BOOLEAN : SetPlayerDoing(movement, pushing)

Spec == Init /\ [][Next]_vars

\* ------------------------------------------------------------------------
\* Vocabulary of the properties

\* The coordinates of a grid
Coordinates(g) == {<<x - 1, y - 1>> : y \in 1..Len(g), x \in 1..Len(g[1])}

\* The Field of the tile at a coordinate of the grid
FieldAt(g, c) == g[c[2] + 1][c[1] + 1].field

HoldsEntity(g, c, type) ==
    FieldAt(g, c).field = "Entity" /\ FieldAt(g, c).type = type

\* The coordinates whose tile holds an entity of the kind
CellsWith(g, type) == {c \in Coordinates(g) : HoldsEntity(g, c, type)}

FallDirections == {"MoveDown", "MoveLeft", "MoveRight"}

\* The cell next to c in direction m, or NoTile
Neighbour(g, c, m) == GetNearestTile(g, c[1], c[2], m)

\* Eligibility of one direction as the design states it (4.3), for an
\* entity standing on cell c
StatedEligible(g, c, m, falling_since) ==
    /\ Neighbour(g, c, m) # NoTile
    /\ \/ Neighbour(g, c, m).field.field = "Empty"
       \/ /\ Neighbour(g, c, m).field.field = "Entity"
          /\ Neighbour(g, c, m).field.type = "Player"
          /\ falling_since > 0
          /\ m = "MoveDown"

\* The first eligible direction in the order down, left, right, as stated
StatedDirection(g, c, falling_since) ==
    IF StatedEligible(g, c, "MoveDown", falling_since) THEN "MoveDown"
    ELSE IF StatedEligible(g, c, "MoveLeft", falling_since) THEN "MoveLeft"
    ELSE IF StatedEligible(g, c, "MoveRight", falling_since) THEN "MoveRight"
    ELSE None

\* ------------------------------------------------------------------------
\* Properties

\* C1: the Diamond pass never moves a Diamond into a cell that holds Wall,
\* Dirt or Exit: every such cell keeps its Field across the pass.
C1_BlockedCellsKeepField ==
    [][pc = "diamonds" =>
         \A c \in Coordinates(tiles) :
            FieldAt(tiles, c).field \in {"Wall", "Dirt", "Exit"}
                => FieldAt(tiles', c) = FieldAt(tiles, c)]_vars

\* C2: when the Diamond pass starts, is_falling of every Diamond gives the
\* first direction among down, left, right whose target is Empty (or is the
\* Player straight below an already falling Diamond), never an off-grid
\* target, and nothing when there is no such direction.
C2_FirstEligibleDirection ==
    pc = "diamonds" =>
        \A c \in CellsWith(tiles, "Diamond") :
            LET d == FieldAt(tiles, c)
            IN  /\ IsFalling(d, tiles) = StatedDirection(tiles, d.position, d.falling_since)
                /\ IsFalling(d, tiles) # None
                       => Neighbour(tiles, d.position, IsFalling(d, tiles)) # NoTile

\* C3: for every Diamond of a reachable grid and every direction, a target
\* cell that holds an entity is eligible exactly when the entity is the
\* Player, the Diamond's falling_since is greater than 0 and the direction is
\* down.
C3_EntityTargetEligibility ==
    \A c \in CellsWith(tiles, "Diamond") :
        \A m \in Movements \ {"Afk"} :
            LET d == FieldAt(tiles, c)
                target == Neighbour(tiles, d.position, m)
            IN  (target # NoTile /\ target.field.field = "Entity")
                    => ( CanMoveTo(target, m, d.falling_since) # None
                           <=> /\ target.field.type = "Player"
                               /\ d.falling_since > 0
                               /\ m = "MoveDown" )

\* C3, the case reached: at the start of a Diamond pass a Diamond that has
\* been falling has the Player straight below the cell it decides from, and
\* is_falling answers down.
C3_Witness ==
    /\ pc = "diamonds"
    /\ \E c \in CellsWith(tiles, "Diamond") :
          LET d == FieldAt(tiles, c)
              target == Neighbour(tiles, d.position, "MoveDown")
          IN  /\ d.falling_since > 0
              /\ target # NoTile
              /\ target.field.field = "Entity"
              /\ target.field.type = "Player"
              /\ IsFalling(d, tiles) = "MoveDown"

\* C4: when is_falling gives a direction D for the Diamond held by tile T,
\* fall() emits (T, Empty) and then (D applied to T, the Diamond with
\* falling_since one greater), and applying them leaves T Empty and the
\* Diamond on the destination.
C4_FallEmitsMoveFromItsTile ==
    pc = "diamonds" =>
        \A c \in CellsWith(tiles, "Diamond") :
            LET d == FieldAt(tiles, c)
                D == IsFalling(d, tiles)
                after == ApplyActions(tiles, Fall(d, tiles))
            IN  D # None =>
                  /\ Len(Fall(d, tiles)) = 2
                  /\ Fall(d, tiles)[1] = NewAction(c, Empty)
                  /\ Fall(d, tiles)[2].coordinates = EditPosition(D, c)
                  /\ Fall(d, tiles)[2].field.type = "Diamond"
                  /\ Fall(d, tiles)[2].field.falling_since = d.falling_since + 1
                  /\ FieldAt(after, c) = Empty
                  /\ HoldsEntity(after, EditPosition(D, c), "Diamond")

\* C5: a Diamond that has no eligible direction when the Diamond pass runs
\* is held, after the tick, with falling_since 0 by the tile that contains
\* it.
C5_BlockedResetsFallingSince ==
    [][(pc = "diamonds" /\ pc' = "idle") =>
         \A c \in CellsWith(tiles, "Diamond") :
            (IsFalling(FieldAt(tiles, c), tiles) = None /\ HoldsEntity(tiles', c, "Diamond"))
                => FieldAt(tiles', c).falling_since = 0]_vars

\* Row-major order of two coordinates: c1 is scanned before c2
ScannedBefore(c1, c2) == c1[2] < c2[2] \/ (c1[2] = c2[2] /\ c1[1] < c2[1])

\* The cell a Diamond's fall() moves it to
FallTarget(d, g) == EditPosition(IsFalling(d, g), d.position)

\* The Action list of a Diamond pass
DiamondPassActions(g, pp) == CollectDiamonds(GetTilesWithEntity(g, "Diamond"), g, pp)

\* C6: the Diamond pass applies its Actions in list order, the last Action
\* on a coordinate deciding its Field; when two Diamonds of the pass target
\* the same cell, the cell ends up holding the one scanned later and the
\* cells the two Diamonds came from are Empty.
C6_LastWriterWins ==
    [][(pc = "diamonds" /\ pc' = "idle") =>
         LET actions == DiamondPassActions(tiles, player_position)
         IN  /\ \A i, j \in 1..Len(actions) :
                   ( /\ i < j
                     /\ actions[i].coordinates = actions[j].coordinates
                     /\ \A k \in 1..Len(actions) :
                           k > j => actions[k].coordinates # actions[j].coordinates )
                   => FieldAt(tiles', actions[j].coordinates) = actions[j].field
             /\ \A c1, c2 \in CellsWith(tiles, "Diamond") :
                   LET d1 == FieldAt(tiles, c1)
                       d2 == FieldAt(tiles, c2)
                   IN  ( /\ ScannedBefore(c1, c2)
                         /\ IsFalling(d1, tiles) # None
                         /\ IsFalling(d2, tiles) # None
                         /\ FallTarget(d1, tiles) = FallTarget(d2, tiles)
                         /\ \A c3 \in CellsWith(tiles, "Diamond") :
                               ScannedBefore(c2, c3) => IsFalling(FieldAt(tiles, c3), tiles) = None )
                       => /\ HoldsEntity(tiles', FallTarget(d2, tiles), "Diamond")
                          /\ FieldAt(tiles', FallTarget(d2, tiles)).falling_since
                               = d2.falling_since + 1
                          /\ FieldAt(tiles', c1) = Empty
                          /\ FieldAt(tiles', c2) = Empty]_vars

\* The cached player coordinate is the position of every tile that holds
\* the Player
CacheFresh(g, pp) == \A c \in CellsWith(g, "Player") : c = pp

\* C7: a tick runs the Rock pass, then the player pass, then the Diamond
\* pass; the Rock pass and the Diamond pass move neither the Player nor the
\* cached coordinate, and the Diamond pass starts with the cached coordinate
\* refreshed to the tile the player pass left the Player on.
C7_PassOrder ==
    [][/\ (pc = "idle" /\ pc' # "idle")
            => /\ pc' = "player"
               /\ player_position' = player_position
               /\ CellsWith(tiles', "Player") \subseteq CellsWith(tiles, "Player")
       /\ (pc = "player" /\ ~fault')
            => /\ pc' = "diamonds"
               /\ CacheFresh(tiles', player_position')
       /\ (pc = "diamonds" /\ ~fault')
            => /\ pc' = "idle"
               /\ player_position' = player_position
               /\ CellsWith(tiles', "Player") \subseteq CellsWith(tiles, "Player")]_vars

\* C7, the case reached: the Diamond pass starts after a player pass that
\* moved the Player (it carries an intent) next to a Diamond.
C7_Witness ==
    /\ pc = "diamonds"
    /\ CellsWith(tiles, "Diamond") # {}
    /\ CellsWith(tiles, "Rock") # {}
    /\ \E c \in CellsWith(tiles, "Player") :
          c = player_position /\ FieldAt(tiles, c).movement # "Afk"

\* C8: at most one tile holds a Player.
C8_AtMostOnePlayer == Cardinality(CellsWith(tiles, "Player")) <= 1

\* C8, the case reached: set_player_doing recorded an intent and the player
\* pass of an update moved the Player, which is held by one tile.
C8_Witness ==
    /\ pc = "diamonds"
    /\ Cardinality(CellsWith(tiles, "Player")) = 1
    /\ \E c \in CellsWith(tiles, "Player") : FieldAt(tiles, c).movement # "Afk"

\* The coordinates at which some level places the Player
StartPositions == {FromStr(level).player_position : level \in Levels}

C10_NoFaultWhenTileLocated ==
    [][( /\ pc # "idle"
         /\ GetTile(tiles, player_position[1], player_position[2]) # NoTile
         /\ GetCurrentZone(player_position[1], player_position[2], zones) # NoZone )
       => ~fault']_vars

\* C11: when the Diamond pass starts with a Diamond that has been falling
\* (falling_since >= 1) on the tile directly above the Player's tile,
\* is_falling of that Diamond is MoveDown, check_collision against the Player
\* is true and fall() emits the move onto the Player's cell.
C11_FallingAbovePlayerMovesDown ==
    pc = "diamonds" =>
        \A c \in CellsWith(tiles, "Diamond") :
            LET d == FieldAt(tiles, c)
                below == EditPosition("MoveDown", c)
            IN  ( /\ d.falling_since >= 1
                  /\ below \in Coordinates(tiles)
                  /\ HoldsEntity(tiles, below, "Player") )
                => /\ IsFalling(d, tiles) = "MoveDown"
                   /\ CheckCollision(d, FieldAt(tiles, below), tiles)
                   /\ Len(Fall(d, tiles)) = 2
                   /\ Fall(d, tiles)[2].coordinates = below
                   /\ Fall(d, tiles)[2].field.type = "Diamond"

\* Coordinates around the grid: every cell and two steps beyond each edge
Around(g) == {<<x, y>> : x \in -2..(Len(g[1]) + 1), y \in -2..(Len(g) + 1)}

\* C12: for every coordinate in and around a reachable grid, get_tile gives
\* a tile exactly when 0 <= y < number of rows and 0 <= x < length of row y,
\* and then the tile of that position; get_nearest_tile with Afk gives no
\* tile, and with a direction gives get_tile one step up, down, left or right.
C12_QueriesAreBoundsChecked ==
    \A c \in Around(tiles) :
        LET x == c[1]
            y == c[2]
            inside == /\ 0 <= y /\ y < Len(tiles)
                      /\ 0 <= x /\ x < Len(tiles[y + 1])
        IN  /\ (GetTile(tiles, x, y) # NoTile) <=> inside
            /\ inside => TilePosition(GetTile(tiles, x, y)) = c
            /\ GetNearestTile(tiles, x, y, "Afk") = NoTile
            /\ GetNearestTile(tiles, x, y, "MoveUp") = GetTile(tiles, x, y - 1)
            /\ GetNearestTile(tiles, x, y, "MoveDown") = GetTile(tiles, x, y + 1)
            /\ GetNearestTile(tiles, x, y, "MoveLeft") = GetTile(tiles, x - 1, y)
            /\ GetNearestTile(tiles, x, y, "MoveRight") = GetTile(tiles, x + 1, y)

\* C12, the case reached: a Diamond pass starts with a Diamond whose
\* neighbour to the left is off the grid (a negative coordinate) and whose
\* neighbour below is a tile.
C12_Witness ==
    /\ pc = "diamonds"
    /\ \E c \in CellsWith(tiles, "Diamond") :
          LET d == FieldAt(tiles, c)
          IN  /\ d.position[1] = 0
              /\ GetNearestTile(tiles, d.position[1], d.position[2], "MoveLeft") = NoTile
              /\ GetNearestTile(tiles, d.position[1], d.position[2], "MoveDown") # NoTile

\* The Field a level character stands for, as the level format states it
StatedField(ch, x, y) ==
    IF ch = "W" THEN [field |-> "Wall", position |-> <<x, y>>]
    ELSE IF ch = "r" THEN [field |-> "Entity", type |-> "Rock",
                           position |-> <<x, y>>, falling_since |-> 0]
    ELSE IF ch = "d" THEN [field |-> "Entity", type |-> "Diamond",
                           position |-> <<x, y>>, falling_since |-> 0]
    ELSE IF ch = "." THEN [field |-> "Dirt"]
    ELSE IF ch = "P" THEN [field |-> "Entity", type |-> "Player",
                           position |-> <<x, y>>, movement |-> "Afk"]
    ELSE IF ch = "X" THEN [field |-> "Exit"]
    ELSE [field |-> "Empty"]

\* What a caller reads back from a tile: the Field get_object_on reports,
\* and Empty when it reports none (as can_move_to and Tile::render read it)
ReadBack(tile) == IF GetObjectOn(tile) = NoObject THEN Empty ELSE GetObjectOn(tile)

\* The grid is the one just constructed from the level text
JustLoaded(level) ==
    /\ pc = "idle"
    /\ tiles = FromStr(level).tiles
    /\ player_position = FromStr(level).player_position

\* C13: right after a Grid is constructed from a level text, the Field read
\* back from the tile at column x of row y is the one the character at that
\* place stands for, entities carrying the position (x, y); in particular a
\* Dirt cell is not read back as an Empty one.
C13_LoadRoundTrip ==
    \A level \in Levels :
        JustLoaded(level) =>
            /\ Len(tiles) = Len(level.rows)
            /\ \A y \in 1..Len(level.rows) :
                  /\ Len(tiles[y]) = Len(level.rows[y])
                  /\ \A x \in 1..Len(level.rows[y]) :
                        /\ TilePosition(tiles[y][x]) = <<x - 1, y - 1>>
                        /\ ReadBack(tiles[y][x])
                             = StatedField(level.rows[y][x], x - 1, y - 1)

\* C13, the stored Fields alone: right after construction every tile stores
\* the Field its character stands for.
C13_StoredFieldsMatch ==
    \A level \in Levels :
        JustLoaded(level) =>
            \A y \in 1..Len(level.rows) : \A x \in 1..Len(level.rows[y]) :
                tiles[y][x].field = StatedField(level.rows[y][x], x - 1, y - 1)

\* The Actions the Diamond held by cell c decides against grid g
Decided(g, c) == Fall(FieldAt(g, c), g)

\* The coordinates written by the Actions the Diamonds of the cells decide
WrittenBy(g, cells) ==
    UNION {{Decided(g, c)[i].coordinates : i \in 1..Len(Decided(g, c))} : c \in cells}

\* C14: in a Diamond pass every Diamond decides against the grid as it is
\* when the pass starts and nothing is written before all have decided:
\* every Action decided against the starting grid is in effect after the
\* pass unless a later Action of the list writes the same coordinate, and a
\* cell that none of these Actions writes is unchanged.
C14_DecisionsAgainstPassStart ==
    [][(pc = "diamonds" /\ pc' = "idle") =>
         LET cells == CellsWith(tiles, "Diamond")
         IN  /\ \A q \in Coordinates(tiles) \ WrittenBy(tiles, cells) :
                   FieldAt(tiles', q) = FieldAt(tiles, q)
             /\ \A c \in cells : \A i \in 1..Len(Decided(tiles, c)) :
                   LET a == Decided(tiles, c)[i]
                   IN  \/ FieldAt(tiles', a.coordinates) = a.field
                       \/ \E j \in 1..Len(Decided(tiles, c)) :
                             j > i /\ Decided(tiles, c)[j].coordinates = a.coordinates
                       \/ \E c2 \in cells :
                             /\ ScannedBefore(c, c2)
                             /\ a.coordinates \in WrittenBy(tiles, {c2})]_vars

\* C14, the case reached: a Diamond pass starts with two Diamonds that both
\* decide to move into the same cell, so the later one decides as if the
\* earlier one had not moved.
C14_Witness ==
    /\ pc = "diamonds"
    /\ \E c1, c2 \in CellsWith(tiles, "Diamond") :
          /\ ScannedBefore(c1, c2)
          /\ IsFalling(FieldAt(tiles, c1), tiles) # None
          /\ IsFalling(FieldAt(tiles, c2), tiles) # None
          /\ FallTarget(FieldAt(tiles, c1), tiles) = FallTarget(FieldAt(tiles, c2), tiles)

\* What occupies a cell, without an entity's counters: the kind of Field
\* and, for an entity, its type
Occupant(g, c) ==
    IF FieldAt(g, c).field = "Entity" THEN FieldAt(g, c).type ELSE FieldAt(g, c).field

\* C15: when the Diamond pass starts with a Diamond that has no eligible
\* direction, fall() emits exactly one Action, on the tile that holds the
\* Diamond, with falling_since 0, and applying it leaves the occupant of
\* every cell as it was.
C15_BlockedFallIsNoOp ==
    pc = "diamonds" =>
        \A c \in CellsWith(tiles, "Diamond") :
            LET d == FieldAt(tiles, c)
                after == ApplyActions(tiles, Fall(d, tiles))
            IN  IsFalling(d, tiles) = None =>
                  /\ Len(Fall(d, tiles)) = 1
                  /\ Fall(d, tiles)[1].coordinates = c
                  /\ Fall(d, tiles)[1].field.falling_since = 0
                  /\ \A q \in Coordinates(tiles) : Occupant(after, q) = Occupant(tiles, q)

\* C16: between ticks, for every direction D and every coordinate q taken as
\* the cached player coordinate (on or off the grid),
\* set_player_doing(D, pushing = TRUE) leaves every tile other than the one
\* at q as it is; when that tile holds a Player it holds afterwards the same
\* Player, at the same position, carrying intent D; when q is off the grid or
\* its tile holds no Player the grid is unchanged.  The step of the program
\* leaves the cached coordinate and the fault flag as they are.
C16_IntentOnlyRecorded ==
    [][(pc = "idle" /\ pc' = "idle") =>
         /\ player_position' = player_position
         /\ fault' = fault
         /\ \E D \in Movements, pushing \in BOOLEAN :
               tiles' = SetPlayerDoingOn(tiles, player_position, D, pushing)
         /\ \A q \in Around(tiles) : \A D \in Movements :
               LET after == SetPlayerDoingOn(tiles, q, D, TRUE)
               IN  IF q \in Coordinates(tiles) /\ HoldsEntity(tiles, q, "Player")
                   THEN /\ \A r \in Coordinates(tiles) \ {q} :
                              FieldAt(after, r) = FieldAt(tiles, r)
                        /\ FieldAt(after, q)
                             = [FieldAt(tiles, q) EXCEPT !.movement = D]
                        /\ CellsWith(after, "Player") = CellsWith(tiles, "Player")
                   ELSE after = tiles]_vars

\* C16, the case reached: between ticks the Player stands on the tile at the
\* cached coordinate carrying a directional intent that set_player_doing
\* recorded, next to a cell it could step onto, and has not been displaced.
C16_Witness ==
    /\ pc = "idle"
    /\ HoldsEntity(tiles, player_position, "Player")
    /\ FieldAt(tiles, player_position).movement = "MoveRight"
    /\ FieldAt(tiles, player_position).position \in StartPositions
    /\ Neighbour(tiles, player_position, "MoveRight") # NoTile
    /\ Walkable(Neighbour(tiles, player_position, "MoveRight"))

\* The Actions the step of update() about to run collects and applies
PassActions ==
    CASE pc = "idle" -> CollectRocks(GetTilesWithEntity(tiles, "Rock"), tiles)
      [] pc = "player" -> PlayerPassActions(tiles, player_position)
      [] pc = "diamonds" -> DiamondPassActions(tiles, player_position)

ActionDraws(log) == SelectSeq(log, LAMBDA e : e.draw = "Action")

ZoneDraws(log) == SelectSeq(log, LAMBDA e : e.draw = "Zone")

ZoneOf(pp) == GetCurrentZone(pp[1], pp[2], zones)

\* C17: in every pass of update() that completes, the draws of the pass are
\* one draw per applied Action, in list order, the i-th showing the tile at
\* the i-th Action's coordinates as it is after Actions 1..i and before
\* Action i+1 are applied; the player pass ends with one full redraw of the
\* zone of the refreshed cached coordinate exactly when that zone differs
\* from the zone of the cached coordinate before the pass, whatever the
\* Diamond pass goes on to apply, and no other pass redraws a zone.
C17_DrawsFollowMutations ==
    [][(pc' # pc /\ ~fault') =>
         LET actions == PassActions
             draws == ActionDraws(drawn')
         IN  /\ drawn' = draws \o ZoneDraws(drawn')
             /\ Len(draws) = Len(actions)
             /\ \A i \in 1..Len(actions) :
                   /\ draws[i].coordinates = actions[i].coordinates
                   /\ draws[i].field
                        = FieldAt(ApplyInOrder(tiles, SubSeq(actions, 1, i)),
                                  actions[i].coordinates)
             /\ ZoneDraws(drawn')
                  = IF pc = "player" /\ ZoneOf(player_position') # ZoneOf(player_position)
                    THEN <<[draw |-> "Zone", zone |-> ZoneOf(player_position')]>>
                    ELSE <<>>]_vars

\* C17, the case reached: the player pass has moved the Player into another
\* zone, its Actions were drawn and the zone redrawn, and the Diamond pass
\* that follows has no Action to apply.
C17_Witness ==
    /\ pc = "diamonds"
    /\ ~fault
    /\ Len(ActionDraws(drawn)) >= 2
    /\ Len(ZoneDraws(drawn)) = 1
    /\ drawn[Len(drawn)] = [draw |-> "Zone", zone |-> ZoneOf(player_position)]
    /\ DiamondPassActions(tiles, player_position) = <<>>

\* C18: every tile that holds a Diamond holds one whose position field is
\* the position of that tile.
C18_DiamondPositionIsItsTile ==
    \A c \in CellsWith(tiles, "Diamond") : FieldAt(tiles, c).position = c

\* C19: no step increases the number of tiles that hold a Diamond.
C19_DiamondsNeverCreated ==
    [][Cardinality(CellsWith(tiles', "Diamond"))
         <= Cardinality(CellsWith(tiles, "Diamond"))]_vars

\* Between ticks, with the Player idle: no pass of the next update() panics
\* or changes a tile or the cached coordinate, so no later tick does either
AtRest ==
    /\ pc = "idle"
    /\ ~fault
    /\ \A c \in CellsWith(tiles, "Player") : FieldAt(tiles, c).movement = "Afk"
    /\ ApplyActions(tiles, CollectRocks(GetTilesWithEntity(tiles, "Rock"), tiles)) = tiles
    /\ GetCurrentZone(player_position[1], player_position[2], zones) # NoZone
    /\ GetTile(tiles, player_position[1], player_position[2]) # NoTile
    /\ ~TileUpdatePanics(GetTile(tiles, player_position[1], player_position[2]),
                         tiles, player_position)
    /\ PlayerPassGrid(tiles, player_position) = tiles
    /\ RefreshedPosition(tiles, player_position) = player_position
    /\ \A i \in 1..Len(GetTilesWithEntity(tiles, "Diamond")) :
          ~DiamondUpdatePanics(GetTilesWithEntity(tiles, "Diamond")[i], tiles, player_position)
    /\ ApplyActions(tiles, DiamondPassActions(tiles, player_position)) = tiles

\* C20: once the Player is idle and no tick changes the grid any more (the
\* state update() then stays in for ever when no key is pressed), every Rock
\* and Diamond has falling_since 0.
C20_RestHasNothingFalling ==
    AtRest =>
        \A c \in CellsWith(tiles, "Diamond") \cup CellsWith(tiles, "Rock") :
            FieldAt(tiles, c).falling_since = 0

====
